---- MODULE Spec2Model ----
(***************************************************************************)
(* CachedDataLoader (projects/mmdet3d_plugin/datasets/cached_dataloader.py) *)
(* as a state machine.                                                      *)
(*                                                                          *)
(* The adapter object holds _dataloader, _num_batches, _outputs and         *)
(* _curr_index.  __iter__ is a generator function: iter(adapter) creates a  *)
(* generator object without running any of its body, and every next() on    *)
(* it runs the body from where it was suspended up to the next yield, the   *)
(* return or an exception.  One next() is one action.                       *)
(*                                                                          *)
(* Python's None is the value 0 here; batches are the positive integers.    *)
(* The wrapped dataloader is a pair: the length it reports and the items    *)
(* its iterator actually produces (which may be fewer, and may be None).    *)
(***************************************************************************)
EXTENDS Integers, Sequences, FiniteSets, TLC

\* ---------------------------------------------------------------- bounds
MaxLen == 10        \* largest length a dataloader reports
MaxItems == 5       \* largest number of items a dataloader's iterator produces
MaxBatches == 5     \* largest num_batches passed to the constructor
MaxTrav == 3        \* generators created over the adapter's lifetime
NumGen == 2         \* generator objects alive at the same time
MaxAttrLen == 1     \* largest dataloader whose attributes are read
MaxInterLen == 2    \* largest dataloader traversed by interleaved traversals
MaxInterTrav == 2   \* generators created when traversals are interleaved

\* ---------------------------------------------------------------- values
None == 0
Gen == 1..NumGen

Min(a, b) == IF a <= b THEN a ELSE b

\* The items an iterator over the dataloader produces: item k is the batch k,
\* or None; at most one item of a dataloader is None.
ItemSeqs ==
    UNION { { s \in [1..p -> 0..p] :
                /\ \A k \in 1..p : s[k] \in {k, None}
                /\ Cardinality({k \in 1..p : s[k] = None}) <= 1 } : p \in 0..MaxItems }

Dataloaders == [len : 0..MaxLen, items : ItemSeqs]

\* The errors a pull on the dataloader's iterator may raise, and the pull that
\* raises one: pull number `at` of an iterator raises `exc` instead of
\* returning.  NoFault: no pull raises.
SourceErrors == {"SourceErrorA", "SourceErrorB"}
NoFault == [at |-> 0, exc |-> "none"]
Faults == [at : 1..MaxBatches, exc : SourceErrors]

\* Attribute names.  The adapter's own: the instance attributes __init__ sets,
\* the methods the class defines, and what the class inherits from object.
InstanceAttrs == {"_dataloader", "_num_batches", "_device", "_outputs", "_curr_index"}
ClassAttrs == {"__init__", "__len__", "__iter__", "__getattr__"}
ObjectAttrs == {"__class__"}

\* The names a dataloader may have attributes under (one of them also a name
\* of the adapter), and the names read on the adapter.
SourceNames == {"foo", "_outputs"}
AttrNames == InstanceAttrs \cup ClassAttrs \cup ObjectAttrs \cup SourceNames

\* The attributes of a dataloader: a value for some of the names
SourceAttrs == UNION { [S -> {1, 2}] : S \in SUBSET SourceNames }
NoAttrs == << >>

\* The outcome of reading an attribute; NoRead: none was read yet
NoRead == [key |-> "", ok |-> TRUE, of |-> "", v |-> 0]
Value(owner, key, v) == [key |-> key, ok |-> TRUE, of |-> owner, v |-> v]
AttributeError(owner, key) == [key |-> key, ok |-> FALSE, of |-> owner, v |-> 0]

\* Optional[list]: _outputs is None, or a list
OutNone == [isNone |-> TRUE, list |-> <<>>]
OutList(s) == [isNone |-> FALSE, list |-> s]

VARIABLES
    dataloader,     \* self._dataloader
    num_batches,    \* self._num_batches
    outputs,        \* self._outputs
    curr_index,     \* self._curr_index
    gen,            \* the generator objects made by __iter__: pc, loop position
    requested,      \* the num_batches argument of the constructor
    fault,          \* the pull of the dataloader's iterator that raises, if any
    srcattrs,       \* the attributes of the dataloader object
    got,            \* the outcome of the latest attribute read on the adapter
    pulls,          \* next() calls made on iterators of the dataloader
    iters,          \* iter() calls made on the dataloader
    ntrav,          \* generators created so far
    nfull,          \* generators driven to their end so far
    ncomplete,      \* of those, the ones that yielded len(adapter) items
    firstOrd,       \* which generator (by creation order) was first asked for
                    \* an item; 0 while none was
    anyYield,       \* some generator has yielded an item
    lastAb,         \* <<i>>: the latest generator was abandoned after delivering
                    \* an item, the last one from cache index i; << >> otherwise
    obs             \* per generator: what its consumer has observed

vars == <<dataloader, num_batches, outputs, curr_index, gen, requested, fault,
          srcattrs, got, pulls, iters, ntrav, nfull, ncomplete, firstOrd, anyYield,
          lastAb, obs>>

\* ---------------------------------------------------------------- __init__, __len__
EffectiveBatchesNoClamp(R, d) == R

\* self._num_batches = min(num_batches, len(dataloader))
EffectiveBatches(R, d) == Min(R, d.len)

\* __len__: len(self._dataloader)
AdapterLen(d) == d.len

\* exc: the exception that ended the generator ("none": none did)
NoGen == [pc |-> "free", n |-> 0, k |-> 0, exc |-> "none"]

\* ord: creation order; asked: next() was called on it; yielded: items it has
\* yielded; item, idx: the last item yielded and its cache index; c0: the
\* cursor when it was created; prevAb, full0, complete0: lastAb, nfull and
\* ncomplete when it was created.
NoObs == [ord |-> 0, asked |-> FALSE, yielded |-> 0, item |-> None, idx |-> 0,
          c0 |-> 0, prevAb |-> << >>, full0 |-> 0, complete0 |-> 0]

\* the adapter after __init__, over any dataloader
Constructed ==
    /\ dataloader \in Dataloaders
    /\ requested \in 1..MaxBatches
    /\ num_batches = EffectiveBatches(requested, dataloader)
    /\ outputs = OutNone
    /\ curr_index = 0
    /\ gen = [t \in Gen |-> NoGen]
    /\ pulls = 0
    /\ iters = 0
    /\ ntrav = 0
    /\ nfull = 0
    /\ ncomplete = 0
    /\ firstOrd = 0
    /\ anyYield = FALSE
    /\ lastAb = << >>
    /\ obs = [t \in Gen |-> NoObs]

\* a dataloader whose pulls raise no error
Init == Constructed /\ fault = NoFault /\ srcattrs = NoAttrs /\ got = NoRead

\* ---------------------------------------------------------------- __iter__
\* next(iterator, None) on an iterator that has already produced pos-1 items
IterNext(items, pos) == IF pos <= Len(items) THEN items[pos] ELSE None

\* if sample is None
IsNone(sample) == sample = None

PopulateRangeOffByOne(n) == n + 1

\* range(self._num_batches)
PopulateRange(n) == n

\* for _ in range(self._num_batches): sample = next(iterator, None); ...
\* j-1 items have been appended to acc.  The result: the list, the next()
\* calls made, and whether the loop ran to its end.
\* An error of the pull ends the loop, and the generator, with that error.
RECURSIVE Populate(_, _, _, _)
Populate(items, n, j, acc) ==
    IF j > n THEN [list |-> acc, calls |-> j - 1, complete |-> TRUE, exc |-> "none"]
    ELSE IF fault.at = j
    THEN [list |-> acc, calls |-> j, complete |-> FALSE, exc |-> fault.exc]
    ELSE LET sample == IterNext(items, j) IN
         IF IsNone(sample)
         THEN [list |-> acc, calls |-> j, complete |-> FALSE, exc |-> "none"]
         ELSE Populate(items, n, j + 1, Append(acc, sample))

PropagateWrapped(exc) == IF exc = "none" THEN "none" ELSE "AdapterError"

\* next(iterator, None) stands in no try block: what the pull raises leaves the
\* generator as it is
Propagate(exc) == exc

EarlyBreak(pop) == FALSE

\* the return of line 41 ends the generator; the loop's normal end does not
EarlyReturn(pop) == ~pop.complete /\ pop.exc = "none"

NeedsPopulationFalsy(o) == o.isNone \/ Len(o.list) = 0

NeedsPopulationShort(o) == o.isNone \/ Len(o.list) < num_batches

NeedsPopulationAlways(o) == TRUE

\* if self._outputs is None
NeedsPopulation(o) == o.isNone

AdvanceStuck(c, n) == c % n

AdvanceNoWrap(c, n) == c + 1

\* self._curr_index = (self._curr_index + 1) % self._num_batches
Advance(c, n) == (c + 1) % n

LoopContinuesOffByOne(k, n) == k <= n

\* for _ in range(len(self)): is there another iteration after k of them
LoopContinues(k, n) == k < n

\* self._outputs[self._curr_index] raises IndexError out of range
InRange(list, c) == c < Len(list)

CacheAfterPop(list, c) ==
    [i \in 1..(Len(list) - 1) |-> IF i <= c THEN list[i] ELSE list[i + 1]]

\* yield self._outputs[self._curr_index]: the subscript reads the list and
\* leaves it as it is
CacheAfterYield(list, c) == list

Active(t) == gen[t].pc \in {"created", "suspended"}

NoneActive == \A u \in Gen : ~Active(u)

\* iter(adapter): a generator object is created in the lowest slot not in use;
\* nothing of the body runs.
Iter(t) ==
    /\ ntrav < MaxTrav
    /\ ~Active(t)
    /\ \A u \in 1..(t - 1) : Active(u)
    /\ gen' = [gen EXCEPT ![t] = [pc |-> "created", n |-> 0, k |-> 0, exc |-> "none"]]
    /\ ntrav' = ntrav + 1
    /\ obs' = [obs EXCEPT ![t] = [NoObs EXCEPT !.ord = ntrav + 1,
                                               !.c0 = curr_index,
                                               !.prevAb = lastAb,
                                               !.full0 = nfull,
                                               !.complete0 = ncomplete]]
    /\ lastAb' = << >>
    /\ UNCHANGED <<dataloader, num_batches, outputs, curr_index, requested, fault,
                   srcattrs, got, pulls, iters, nfull, ncomplete, firstOrd,
                   anyYield>>

\* The generator's state when next() resumes it: a created generator evaluates
\* range(len(self)); a suspended one runs the statement after the yield and
\* goes to the next iteration.
ResumeN(t) == IF gen[t].pc = "created" THEN AdapterLen(dataloader) ELSE gen[t].n

ResumeK(t) == IF gen[t].pc = "created" THEN 0 ELSE gen[t].k + 1

ResumeIndexReset(t) ==
    IF gen[t].pc = "created" THEN 0 ELSE Advance(curr_index, num_batches)

ResumeIndexAdvanceFirst(t) ==
    IF num_batches = 0 THEN curr_index ELSE Advance(curr_index, num_batches)

ResumeIndex(t) ==
    IF gen[t].pc = "created" THEN curr_index ELSE Advance(curr_index, num_batches)

\* next(generator): the body runs up to the next yield, the return, the end of
\* the loop or the IndexError.
Next_(t) ==
    /\ Active(t)
    /\ LET n == ResumeN(t)
           k == ResumeK(t)
           c == ResumeIndex(t)
           pop == Populate(dataloader.items, PopulateRange(num_batches), 1, <<>>)
           populate == LoopContinues(k, n) /\ NeedsPopulation(outputs)
           list == IF populate THEN pop.list ELSE outputs.list
           returned == populate /\ EarlyReturn(pop)
           raised == IF populate THEN Propagate(pop.exc) ELSE "none"
           pc2 == IF ~LoopContinues(k, n) \/ returned THEN "done"
                  ELSE IF raised # "none" THEN "error"
                  ELSE IF InRange(list, c) THEN "suspended"
                  ELSE "error"
           exc2 == IF pc2 # "error" THEN "none"
                   ELSE IF raised # "none" THEN raised
                   ELSE "IndexError"
           y == IF pc2 = "suspended" THEN obs[t].yielded + 1 ELSE obs[t].yielded
       IN /\ curr_index' = c
          /\ outputs' = IF pc2 = "suspended" THEN OutList(CacheAfterYield(list, c))
                         ELSE IF populate THEN OutList(pop.list)
                         ELSE outputs
          /\ pulls' = IF populate THEN pulls + pop.calls ELSE pulls
          /\ iters' = IF populate THEN iters + 1 ELSE iters
          /\ gen' = [gen EXCEPT ![t] = [pc |-> pc2, n |-> n, k |-> k, exc |-> exc2]]
          /\ nfull' = IF pc2 = "done" THEN nfull + 1 ELSE nfull
          /\ ncomplete' = IF pc2 = "done" /\ y = n THEN ncomplete + 1 ELSE ncomplete
          /\ firstOrd' = IF firstOrd = 0 THEN obs[t].ord ELSE firstOrd
          /\ anyYield' = (anyYield \/ pc2 = "suspended")
          /\ obs' = [obs EXCEPT
                ![t].asked = TRUE,
                ![t].yielded = y,
                ![t].item = IF pc2 = "suspended" THEN list[c + 1] ELSE @,
                ![t].idx = IF pc2 = "suspended" THEN c ELSE @]
    /\ UNCHANGED <<dataloader, num_batches, requested, fault, srcattrs, got,
                   ntrav, lastAb>>

\* The consumer stops iterating: the generator is closed where it stands
\* (GeneratorExit at the yield; no statement of the body runs).
Close(t) ==
    /\ Active(t)
    /\ gen' = [gen EXCEPT ![t].pc = "closed"]
    /\ lastAb' = IF obs[t].yielded >= 1 THEN <<obs[t].idx>> ELSE << >>
    /\ UNCHANGED <<dataloader, num_batches, outputs, curr_index, requested, fault,
                   srcattrs, got, pulls, iters, ntrav, nfull, ncomplete, firstOrd,
                   anyYield, obs>>

\* One consumer, one traversal at a time: a traversal is started only when no
\* other is in progress.
Next == \E t \in Gen : (NoneActive /\ Iter(t)) \/ Next_(t) \/ Close(t)

Spec == Init /\ [][Next]_vars

\* A dataloader one of whose first num_batches pulls may raise (a later pull is
\* never made).
InitErr ==
    /\ Constructed
    /\ fault \in {NoFault} \cup {f \in Faults : f.at <= num_batches}
    /\ srcattrs = NoAttrs
    /\ got = NoRead

SpecErr == InitErr /\ [][Next]_vars

\* Several traversals in progress at once, in one thread: a traversal may be
\* started while others are suspended at their yield, and each next() runs to
\* its yield before any other step.
InitInter ==
    /\ Constructed
    /\ dataloader.len <= MaxInterLen
    /\ Len(dataloader.items) <= MaxInterLen
    /\ requested <= MaxInterLen + 1
    /\ fault = NoFault
    /\ srcattrs = NoAttrs
    /\ got = NoRead

NextInter == \E t \in Gen : (ntrav < MaxInterTrav /\ Iter(t)) \/ Next_(t) \/ Close(t)

SpecInter == InitInter /\ [][NextInter]_vars

\* ---------------------------------------------------------------- __getattr__
FoundNever(key) == FALSE

\* "Only invoked if the attribute wasn't found the usual ways": the instance's
\* __dict__, the class, object
FoundUsualWay(key) == key \in InstanceAttrs \cup ClassAttrs \cup ObjectAttrs

\* what the adapter's own attribute holds (the fields by their value, 0 for
\* the others)
OwnValue(key) ==
    IF key = "_curr_index" THEN curr_index
    ELSE IF key = "_num_batches" THEN num_batches
    ELSE IF key = "_outputs" THEN Len(outputs.list)
    ELSE 0

\* getattr(self._dataloader, key)
GetAttrOfDataloader(key) ==
    IF key \in DOMAIN srcattrs THEN Value("dataloader", key, srcattrs[key])
    ELSE AttributeError("dataloader", key)

\* adapter.<key>, read between two traversals
GetAttr(key) ==
    /\ NoneActive
    /\ got' = IF FoundUsualWay(key) THEN Value("adapter", key, OwnValue(key))
              ELSE GetAttrOfDataloader(key)
    /\ UNCHANGED <<dataloader, num_batches, outputs, curr_index, gen, requested,
                   fault, srcattrs, pulls, iters, ntrav, nfull, ncomplete,
                   firstOrd, anyYield, lastAb, obs>>

\* A small dataloader with attributes of its own; the consumer traverses the
\* adapter and reads attributes on it.
InitAttr ==
    /\ Constructed
    /\ dataloader.len <= MaxAttrLen
    /\ Len(dataloader.items) <= MaxAttrLen
    /\ requested <= MaxAttrLen + 1
    /\ fault = NoFault
    /\ srcattrs \in SourceAttrs
    /\ got = NoRead

NextAttr == Next \/ \E key \in AttrNames : GetAttr(key)

SpecAttr == InitAttr /\ [][NextAttr]_vars

\* ================================================================ claims
\* t is the first traversal: the first generator asked for an item
FirstTrav(t) == obs[t].asked /\ obs[t].ord = firstOrd

\* the first pull that returns None (no item left, or a batch that is None),
\* if one of the first n pulls does; n otherwise
StopsAt(items, n) ==
    IF \E j \in 1..n : IterNext(items, j) = None
    THEN CHOOSE j \in 1..n : /\ IterNext(items, j) = None
                             /\ \A i \in 1..(j - 1) : IterNext(items, i) # None
    ELSE n

\* C1: a traversal driven to its end has yielded len(dataloader) items, for
\* every dataloader whose iterator produces at least min(R, L) items.
C1_FullTraversalYieldsLen ==
    \A t \in Gen :
        (gen[t].pc = "done" /\ Len(dataloader.items) >= Min(requested, dataloader.len))
            => obs[t].yielded = dataloader.len

\* C2: the length every traversal loops over is the dataloader's length, and
\* num_batches is min(R, L), so that 0 <= num_batches <= L, in every state.
C2_LengthAndCacheSize ==
    /\ num_batches = Min(requested, dataloader.len)
    /\ 0 <= num_batches
    /\ num_batches <= dataloader.len
    /\ \A t \in Gen : obs[t].asked => gen[t].n = dataloader.len

\* C2 witness: the clamp acts (R > L >= 1) and a traversal has run to its end.
C2_Witness ==
    /\ requested > dataloader.len
    /\ dataloader.len >= 1
    /\ \E t \in Gen : gen[t].pc = "done" /\ obs[t].yielded = dataloader.len

\* C3 as stated: on the first traversal over a dataloader of length L >= 1,
\* exactly min(R, L) pulls are made on the dataloader's iterator.
C3_ExactlyMinPulls ==
    \A t \in Gen :
        (FirstTrav(t) /\ dataloader.len >= 1) => pulls = Min(requested, dataloader.len)

\* C3 amended: on the first traversal over a dataloader of length L >= 1 one
\* iterator is requested and at most min(R, L) pulls are made on it: exactly
\* min(R, L) unless an earlier pull returns None, which is then the last pull;
\* whenever that traversal yields an item, exactly min(R, L) pulls were made.
C3_PullsUntilNone ==
    \A t \in Gen :
        (FirstTrav(t) /\ dataloader.len >= 1) =>
            /\ iters = 1
            /\ pulls = StopsAt(dataloader.items, Min(requested, dataloader.len))
            /\ pulls <= Min(requested, dataloader.len)
            /\ (obs[t].yielded >= 1 => pulls = Min(requested, dataloader.len))

\* C3 witness: the first traversal has yielded an item after 4 pulls (R < L).
C3_Witness ==
    \E t \in Gen :
        /\ FirstTrav(t)
        /\ obs[t].yielded >= 1
        /\ requested = 4
        /\ dataloader.len = 6
        /\ pulls = 4

\* the first traversal is over: ended, abandoned or failed
FirstOver == firstOrd # 0 /\ ~(\E t \in Gen : Active(t) /\ obs[t].ord = firstOrd)

\* C4: once the first traversal is over, no step of any later traversal makes
\* a pull on the dataloader or requests an iterator from it.
C4_NoPullsAfterFirst ==
    [][FirstOver => (pulls' = pulls /\ iters' = iters)]_vars

\* C4 witness: a traversal later than the first has yielded an item, and the
\* pulls are still those of the population.
C4_Witness ==
    \E t \in Gen :
        /\ firstOrd # 0
        /\ obs[t].ord > firstOrd
        /\ obs[t].yielded >= 1
        /\ pulls >= 2
        /\ pulls = num_batches
        /\ iters = 1

\* C5: the i-th item a traversal yields (i from 0) is the cache item at index
\* (c0 + i) mod num_batches, c0 being the cursor when the traversal started.
C5_RoundRobin ==
    \A t \in Gen :
        gen[t].pc = "suspended" =>
            /\ num_batches >= 1
            /\ obs[t].idx = (obs[t].c0 + obs[t].yielded - 1) % num_batches
            /\ obs[t].item = outputs.list[((obs[t].c0 + obs[t].yielded - 1) % num_batches) + 1]

\* C5 witness: a traversal that started at a cursor other than 0 has wrapped
\* around a cache of at least 2 items.
C5_Witness ==
    \E t \in Gen :
        /\ gen[t].pc = "suspended"
        /\ num_batches >= 2
        /\ obs[t].c0 > 0
        /\ obs[t].yielded > num_batches

EarlyExhaustion ==
    /\ dataloader.len = 10
    /\ dataloader.items = <<1, 2>>
    /\ requested = 5

\* C7 as stated: in the early-exhaustion scenario the first traversal ends
\* having yielded exactly 2 items.
C7_YieldsTwo ==
    \A t \in Gen :
        (EarlyExhaustion /\ FirstTrav(t) /\ gen[t].pc = "done") => obs[t].yielded = 2

\* C7 amended: in the early-exhaustion scenario (num_batches 5, length 10) the
\* first item request of the first traversal ends it, without an error and with
\* no item yielded: the 2 items pulled stay in the cache.
C7_YieldsNone ==
    \A t \in Gen :
        (EarlyExhaustion /\ FirstTrav(t)) =>
            /\ gen[t].pc = "done"
            /\ obs[t].yielded = 0
            /\ outputs = OutList(<<1, 2>>)
            /\ num_batches = 5
            /\ AdapterLen(dataloader) = 10

\* C7 witness: the first traversal of the scenario has ended.
C7_Witness ==
    \E t \in Gen : EarlyExhaustion /\ FirstTrav(t) /\ gen[t].pc = "done" /\ pulls = 3

\* C8: no step of any traversal ends in an error (the dataloader's pulls raise
\* none in this model).
C8_NeverFails ==
    \A t \in Gen : gen[t].pc # "error"

\* C9: over a dataloader of length 0 no traversal yields an item or fails, and
\* the dataloader is neither pulled nor asked for an iterator.
C9_ZeroLength ==
    dataloader.len = 0 =>
        /\ pulls = 0
        /\ iters = 0
        /\ outputs = OutNone
        /\ \A t \in Gen :
            /\ obs[t].yielded = 0
            /\ gen[t].pc \in {"free", "created", "done", "closed"}
            /\ obs[t].asked => gen[t].pc = "done"

\* C9 witness: a later traversal over a dataloader of length 0, whose iterator
\* could produce items, has ended.
C9_Witness ==
    \E t \in Gen :
        /\ dataloader.len = 0
        /\ Len(dataloader.items) >= 1
        /\ obs[t].ord >= 2
        /\ gen[t].pc = "done"

\* C10 as stated: the first item of a traversal that follows a traversal
\* abandoned after delivering an item is the cache item after the last
\* delivered one.
C10_ResumesAfterLast ==
    \A t \in Gen :
        (gen[t].pc = "suspended" /\ obs[t].yielded = 1 /\ obs[t].prevAb # << >>)
            => obs[t].idx = (obs[t].prevAb[1] + 1) % num_batches

\* C10 amended: the first item of a traversal that follows a traversal
\* abandoned after delivering an item is the last delivered item again (the
\* cursor moves only when the item after it is requested): that cache index
\* is delivered twice, and none is skipped.
C10_ResumesAtLast ==
    \A t \in Gen :
        (obs[t].asked /\ obs[t].prevAb # << >>) =>
            /\ obs[t].yielded >= 1
            /\ obs[t].c0 = obs[t].prevAb[1]
            /\ (gen[t].pc = "suspended" /\ obs[t].yielded = 1)
                  => (obs[t].idx = obs[t].prevAb[1] /\ obs[t].item = outputs.list[obs[t].prevAb[1] + 1])

\* C10 witness: a traversal abandoned after index 1 of a cache of 3 or more;
\* the next one has delivered its first item.
C10_Witness ==
    \E t \in Gen :
        /\ gen[t].pc = "suspended"
        /\ obs[t].yielded = 1
        /\ obs[t].prevAb = <<1>>
        /\ num_batches >= 3

\* the pull that raises is reached: every pull before it returns an item
FaultHit ==
    /\ fault.at >= 1
    /\ fault.at <= num_batches
    /\ \A j \in 1..(fault.at - 1) : IterNext(dataloader.items, j) # None

\* C11: when a pull of the population raises, the step that made it ends with
\* that very error, and the step yields no item; no traversal ever ends with
\* an error of the source other than the one the source raised.
C11_SourceErrorPropagates ==
    \A t \in Gen :
        /\ (FirstTrav(t) /\ dataloader.len >= 1 /\ FaultHit) =>
              /\ gen[t].pc = "error"
              /\ gen[t].exc = fault.exc
              /\ obs[t].yielded = 0
              /\ pulls = fault.at
        /\ gen[t].exc \notin {"none", "IndexError"} =>
              (FaultHit /\ gen[t].exc = fault.exc)

\* C11 witness: the third pull raised SourceErrorB, after two items were cached.
C11_Witness ==
    \E t \in Gen :
        /\ fault = [at |-> 3, exc |-> "SourceErrorB"]
        /\ gen[t].pc = "error"
        /\ gen[t].exc = "SourceErrorB"
        /\ pulls = 3
        /\ outputs = OutList(<<1, 2>>)

\* C12: reading on the adapter a name that is none of its own gives what
\* reading it on the dataloader gives: the dataloader's value, or the
\* AttributeError of a dataloader that lacks it; reading one of the adapter's
\* own names gives the adapter's attribute and is not forwarded, also when the
\* dataloader has an attribute of that name.
C12_Delegation ==
    got # NoRead =>
        IF got.key \in {"_dataloader", "_num_batches", "_device", "_outputs", "_curr_index",
                        "__init__", "__len__", "__iter__", "__getattr__", "__class__"}
        THEN got.ok /\ got.of = "adapter"
        ELSE /\ got.of = "dataloader"
             /\ got.ok = (got.key \in DOMAIN srcattrs)
             /\ got.ok => got.v = srcattrs[got.key]

\* C12 witness: foo, which the dataloader holds as 2, was read on the adapter
\* after a traversal, and the dataloader has an _outputs of its own.
C12_Witness ==
    /\ got = Value("dataloader", "foo", 2)
    /\ "_outputs" \in DOMAIN srcattrs
    /\ \E t \in Gen : gen[t].pc = "done"

\* C13: in every state in which the cache has been populated (_outputs is a
\* list), 0 <= _curr_index < _num_batches.
C13_CursorInRange ==
    ~outputs.isNone => (0 <= curr_index /\ curr_index < num_batches)

\* C13 witness: in the third traversal, after an abandoned one, the cursor has
\* wrapped around and stands at the last index of a cache of 3 or more.
C13_Witness ==
    \E t \in Gen :
        /\ obs[t].ord = 3
        /\ nfull = 1
        /\ gen[t].pc = "suspended"
        /\ obs[t].yielded > num_batches
        /\ num_batches >= 3
        /\ curr_index = num_batches - 1

\* the first n items of a sequence
Prefix(items, n) == [i \in 1..Min(n, Len(items)) |-> items[i]]

\* C14: between two steps the cache is either unpopulated or holds exactly
\* num_batches items, the first num_batches the dataloader produces, in order.
C14_CacheAllOrNothing ==
    \/ outputs.isNone
    \/ /\ Len(outputs.list) = num_batches
       /\ outputs.list = Prefix(dataloader.items, num_batches)

\* C15: once the cache is populated, no step changes its length or contents.
C15_CacheImmutable ==
    [][~outputs.isNone => outputs' = outputs]_vars

\* C15 witness: a later traversal has yielded from a cache of 3 items and has
\* moved the cursor.
C15_Witness ==
    \E t \in Gen :
        /\ obs[t].ord >= 2
        /\ obs[t].yielded >= 2
        /\ outputs = OutList(<<1, 2, 3>>)
        /\ curr_index # obs[t].c0

\* the dataloader of the same length that produces as many items, none of
\* them None
Plain(d) == [len |-> d.len, items |-> [i \in 1..Len(d.items) |-> i]]

\* what the population gives over Plain(dataloader)
PlainPopulation == Populate(Plain(dataloader).items, PopulateRange(num_batches), 1, <<>>)

\* C16: what a traversal yields depends on the dataloader's length and on how
\* many items it produces, not on their values: the cache has as many items,
\* and a first traversal driven to its end has yielded as many items, as over
\* the dataloader of the same length and item count whose batches are not None.
C16_ContentBlind ==
    /\ ~outputs.isNone => Len(outputs.list) = Len(PlainPopulation.list)
    /\ \A t \in Gen :
          (FirstTrav(t) /\ gen[t].pc = "done") =>
              obs[t].yielded = IF PlainPopulation.complete THEN dataloader.len ELSE 0

\* the items of a list
Elements(list) == {list[i] : i \in 1..Len(list)}

\* what C17 says of the dataloader and the cursor: one iterator at most, at
\* most min(R, L) pulls, the cursor within the cache size (for L >= 1), every
\* item yielded an element of the cache
InterleavedSafe ==
    /\ iters <= 1
    /\ pulls <= Min(requested, dataloader.len)
    /\ dataloader.len >= 1 => (0 <= curr_index /\ curr_index < num_batches)
    /\ \A t \in Gen : gen[t].pc = "suspended" => obs[t].item \in Elements(outputs.list)

\* a second traversal was started while the first was in progress
Overlapped == obs[2].ord # 0

\* C17 as stated: with the steps of two traversals interleaved in any order,
\* InterleavedSafe holds and each traversal driven to its end has yielded L
\* items.
C17_InterleavedAllYieldLen ==
    Overlapped =>
        /\ InterleavedSafe
        /\ \A t \in Gen : gen[t].pc = "done" => obs[t].yielded = dataloader.len

\* C17 amended: with the steps of traversals interleaved in any order,
\* InterleavedSafe holds and each traversal that reaches its end has yielded L
\* items, except the one whose population was cut short, which has yielded
\* none and leaves the cache short.
C17_InterleavedYieldLenOrNone ==
    /\ InterleavedSafe
    /\ \A t \in Gen :
          gen[t].pc = "done" =>
              \/ obs[t].yielded = dataloader.len
              \/ /\ obs[t].yielded = 0
                 /\ ~outputs.isNone
                 /\ Len(outputs.list) < num_batches

\* C17 witness: two traversals of a dataloader of length 2 were in progress
\* together, each with an item delivered; the first has reached its end with
\* 2 items while the second stands at its first yield.
C17_Witness ==
    /\ dataloader.len = 2
    /\ num_batches = 2
    /\ gen[1].pc = "done"
    /\ obs[1].yielded = 2
    /\ gen[2].pc = "suspended"
    /\ obs[2].yielded = 1
    /\ obs[2].c0 = 0
    /\ obs[2].idx = 1
    /\ obs[2].ord = 2
    /\ obs[1].ord = 1

\* C18 as stated: creating a traversal pulls nothing and requests no iterator;
\* the first item request of the first traversal makes all min(R, L) pulls; the
\* step that yields the first item ever has made all min(R, L) pulls by then;
\* and once an item has been yielded no step makes a pull.
C18_AllPullsBeforeFirstYield ==
    [][ /\ ntrav' # ntrav => (pulls' = pulls /\ iters' = iters /\ outputs' = outputs)
        /\ (firstOrd = 0 /\ firstOrd' # 0) => pulls' = Min(requested, dataloader.len)
        /\ (~anyYield /\ anyYield') => pulls' = Min(requested, dataloader.len)
        /\ anyYield => pulls' = pulls ]_vars

\* C18 amended: creating a traversal pulls nothing and requests no iterator;
\* pulls are made only by the first item request of the first traversal, which
\* makes min(R, L) of them unless an earlier pull returns None, which is then
\* the last; when that request yields an item all min(R, L) pulls were made;
\* and once an item has been yielded no step makes a pull.
C18_PullsOnlyAtFirstRequest ==
    [][ /\ ntrav' # ntrav => (pulls' = pulls /\ iters' = iters /\ outputs' = outputs)
        /\ pulls' # pulls =>
              /\ firstOrd = 0 /\ firstOrd' # 0
              /\ pulls = 0
              /\ pulls' = StopsAt(dataloader.items, Min(requested, dataloader.len))
        /\ (firstOrd = 0 /\ anyYield') => pulls' = Min(requested, dataloader.len)
        /\ anyYield => pulls' = pulls ]_vars

\* C18 witness: a first traversal was created and dropped without a request;
\* the second has yielded items after the 3 pulls of its first step.
C18_Witness ==
    \E t \in Gen :
        /\ firstOrd = 2
        /\ obs[t].ord = 2
        /\ obs[t].yielded >= 2
        /\ anyYield
        /\ pulls = 3
        /\ num_batches = 3

====
